---------------------------- MODULE Spec2Model ----------------------------
(***************************************************************************)
(* Model of veusz's AxisBroken widget (widgets/axisbroken.py): the broken  *)
(* axis layout (computePlottedRange, updateAxisLocation, switchBreak) and  *)
(* the draw routines (_axisDraw, _autoMirrorDraw).                         *)
(*                                                                         *)
(* Numbers.  Axis values (plotted range, break points) are only copied by  *)
(* the code and are modelled as integers.  Fractional positions and pixel  *)
(* coordinates are Python floats; they are modelled exactly, as fixed-point*)
(* integers in units of 1/One (One stands for 1.0).  The input sets below  *)
(* are chosen so that every division the code performs is exact in this    *)
(* unit, hence the model computes the real-number value of each float      *)
(* expression (IEEE rounding is not modelled).                             *)
(***************************************************************************)
EXTENDS Integers, Sequences, FiniteSets, TLC

\* Python's None, for rangeswitch and for the otherposition argument.
None == -1

\* 1.0 in fixed-point units.
One == 1200

\* breakgap = 0.05 (line 113), in fixed-point units.
breakgap == 60

--------------------------------------------------------------------------
(* Bounds of the model *)

\* longest breakPoints list of the layout specifications
MaxPoints == 6
\* longest breakPosns list of the layout specifications
MaxPosns == 3
\* longest breakPoints list of the range specification
MaxRangePoints == 4
\* longest breakPoints list of the draw specification
MaxDrawPoints == 4
\* largest label overflow one segment's tick labels report
MaxDelta == 1
\* most drawing parts hidden at once in the draw specification
MaxHidden == 1

\* values a breakPoints entry takes in the range specification
BreakVals == {20, 40, 60}
\* values a breakPosns entry takes: 0.25, 0.5, 0.52, 1.5
PosVals == {300, 600, 624, 1800}
\* full plotted ranges the base axis reports
Ranges == {<<0, 100>>, <<10, 90>>}
\* widget bounds (x1, y1, x2, y2) in pixels: left, top, right, bottom
Rects == {<<10 * One, 5 * One, 50 * One, 35 * One>>,
          <<0, 0, 20 * One, 60 * One>>}
Directions == {"horizontal", "vertical"}

SeqsUpTo(S, n) == UNION {[1..k -> S] : k \in 0..n}

\* the breakPoints list 20, 40, 60, ... of length n
PointsList(n) == [k \in 1..n |-> 20 * k]

--------------------------------------------------------------------------
(* Pure helpers *)

\* a * b for fixed-point a, b
Mul(a, b) == (a * b) \div One

\* list.sort(): ascending insertion
RECURSIVE Insert(_, _)
Insert(x, s) ==
    IF s = <<>> THEN <<x>>
    ELSE IF x <= Head(s) THEN <<x>> \o s
    ELSE <<Head(s)>> \o Insert(x, Tail(s))

RECURSIVE Sorted(_)
Sorted(s) == IF s = <<>> THEN <<>> ELSE Insert(Head(s), Sorted(Tail(s)))

\* len(points) / 2 (Python 2 integer division), lines 99 and 131
NumBreaks(points) == Len(points) \div 2

\* ResolvePosns dividing the remaining fraction by the number of missing
\* positions instead of that number plus one
ResolvePosnsOffByOne(points, bposns) ==
    LET num == Len(points) \div 2
        posns == Sorted(bposns)
    IN  IF Len(posns) < num
        THEN LET start == IF Len(posns) # 0 THEN posns[Len(posns)] ELSE 0
                 m == num - Len(posns)
                 c == ((One - start) \div m) + start
             IN  posns \o [k \in 1..m |-> k * c]
        ELSE posns

\* lines 100-110: the break positions used to build posstarts and posstops
ResolvePosns(points, bposns) ==
    LET num == NumBreaks(points)
        posns == Sorted(bposns)
    IN  IF Len(posns) < num
        THEN LET start == IF Len(posns) # 0 THEN posns[Len(posns)] ELSE 0
                 m == num - Len(posns)
                 c == ((One - start) \div (m + 1)) + start
             IN  posns \o [k \in 1..m |-> k * c]
        ELSE posns

\* PosStarts adding the whole gap instead of half of it
PosStartsWholeGap(posns) == <<0>> \o [k \in 1..Len(posns) |-> posns[k] + breakgap]

\* lines 116-123
PosStarts(posns) == <<0>> \o [k \in 1..Len(posns) |-> posns[k] + breakgap \div 2]
PosStops(posns) == [k \in 1..Len(posns) |-> posns[k] - breakgap \div 2] \o <<One>>

\* SegmentBounds with posstarts and posstops exchanged on a vertical axis
SegmentBoundsSwapped(bounds, rs, dir, pstarts, pstops) ==
    IF rs = None THEN bounds
    ELSE IF dir = "horizontal"
    THEN LET d == bounds[3] - bounds[1]
             n0 == bounds[1] + Mul(d, pstarts[rs + 1])
             n2 == bounds[1] + Mul(d, pstops[rs + 1])
         IN  <<n0, bounds[2], n2, bounds[4]>>
    ELSE LET d == bounds[2] - bounds[4]
             n1 == bounds[4] + Mul(d, pstarts[rs + 1])
             n3 == bounds[4] + Mul(d, pstops[rs + 1])
         IN  <<bounds[1], n1, bounds[3], n3>>

\* lines 78-93: the bounds handed on to Axis.updateAxisLocation.  Segment
\* indices are 0-based in the code and lists are 1-based here.
SegmentBounds(bounds, rs, dir, pstarts, pstops) ==
    IF rs = None THEN bounds
    ELSE IF dir = "horizontal"
    THEN LET d == bounds[3] - bounds[1]
             n0 == bounds[1] + Mul(d, pstarts[rs + 1])
             n2 == bounds[1] + Mul(d, pstops[rs + 1])
         IN  <<n0, bounds[2], n2, bounds[4]>>
    ELSE LET d == bounds[2] - bounds[4]
             n1 == bounds[4] + Mul(d, pstops[rs + 1])
             n3 == bounds[4] + Mul(d, pstarts[rs + 1])
         IN  <<bounds[1], n1, bounds[3], n3>>

\* BreakVList without the truncation to an even number of break points
BreakVListAll(range, points) == <<range[1]>> \o points \o <<range[2]>>

\* lines 132-133
BreakVList(range, points) ==
    <<range[1]>> \o SubSeq(points, 1, NumBreaks(points) * 2) \o <<range[2]>>

\* lines 136-137
BreakVStarts(vlist, num) == [i \in 1..num |-> vlist[(i - 1) * 2 + 1]]
BreakVStops(vlist, num) == [i \in 1..num |-> vlist[(i - 1) * 2 + 2]]

--------------------------------------------------------------------------
(* State *)

VARIABLES
    \* settings (lines 51-62 and the base axis settings the code reads)
    breakPoints, breakPosns, direction, hide, autoMirror,
    \* results of the base axis queries _shouldAutoMirror and _suppressText
    shouldMirror, suppress,
    \* attributes of the AxisBroken object
    rangeswitch, plottedrange, orig_plottedrange,
    breakvnum, breakvlist, breakvstarts, breakvstops,
    posstarts, posstops, delta_axis,
    \* arguments of the latest Axis.updateAxisLocation call (line 95)
    locbounds, locother,
    \* position in the running call, its posn argument and its locals
    pc, posn, i, max_delta, otheredge,
    \* drawing primitives called so far in the pass, and the label overflow
    \* each finished segment reported
    log, observed

settingVars == <<breakPoints, breakPosns, direction, hide, autoMirror,
                 shouldMirror, suppress>>
rangeVars == <<orig_plottedrange, breakvnum, breakvlist, breakvstarts,
               breakvstops>>
locVars == <<locbounds, locother, posstarts, posstops>>
drawVars == <<i, max_delta, otheredge, delta_axis, log, observed>>
vars == <<settingVars, rangeVars, locVars, drawVars, rangeswitch,
          plottedrange, pc, posn>>

\* the parts whose drawing a hide setting switches off
Parts == {"Line", "MinorTicks", "MajorTicks", "TickLabels", "Label"}

\* lines 41-44: the object after construction; the attributes the layout
\* routines create later are empty until then
Constructed ==
    /\ rangeswitch = None
    /\ plottedrange = <<>>
    /\ orig_plottedrange = <<>>
    /\ breakvnum = 0
    /\ breakvlist = <<>>
    /\ breakvstarts = <<>>
    /\ breakvstops = <<>>
    /\ posstarts = <<>>
    /\ posstops = <<>>
    /\ delta_axis = 0
    /\ locbounds = <<>>
    /\ locother = None
    /\ pc = "new"
    /\ posn = <<>>
    /\ i = 0
    /\ max_delta = 0
    /\ otheredge = None
    /\ log = <<>>
    /\ observed = <<>>

--------------------------------------------------------------------------
(* Layout operations *)

\* lines 125-148.  Axis.computePlottedRange (line 127) leaves the full range
\* in plottedrange; the loop of lines 142-146 sets plottedrange to each
\* segment's range in turn and line 148 puts the full range back.
ComputePlottedRange ==
    /\ pc = "new"
    /\ \E range \in Ranges :
        LET num == NumBreaks(breakPoints) + 1
            vlist == BreakVList(range, breakPoints)
        IN  /\ orig_plottedrange' = range
            /\ breakvnum' = num
            /\ breakvlist' = vlist
            /\ breakvstarts' = BreakVStarts(vlist, num)
            /\ breakvstops' = BreakVStops(vlist, num)
            /\ plottedrange' = range
    /\ pc' = "ranged"
    /\ UNCHANGED <<settingVars, locVars, drawVars, rangeswitch, posn>>

\* lines 73-123, called with rangeswitch = rs
UpdateLoc(rs, bounds, otherposition) ==
    LET posns == ResolvePosns(breakPoints, breakPosns)
    IN  /\ locbounds' = SegmentBounds(bounds, rs, direction, posstarts, posstops)
        /\ locother' = otherposition
        /\ posstarts' = PosStarts(posns)
        /\ posstops' = PosStops(posns)

\* SwitchBreakTo leaving the full range plotted when a segment is activated
SwitchBreakToFullRange(num, bounds, otherposition) ==
    /\ rangeswitch' = num
    /\ plottedrange' = orig_plottedrange
    /\ UpdateLoc(num, bounds, otherposition)

\* lines 64-71
SwitchBreakTo(num, bounds, otherposition) ==
    /\ rangeswitch' = num
    /\ plottedrange' = IF num = None THEN orig_plottedrange
                       ELSE <<breakvstarts[num + 1], breakvstops[num + 1]>>
    /\ UpdateLoc(num, bounds, otherposition)

\* updateAxisLocation(posn) on the unbroken axis, as the base axis calls it
\* before drawing
UpdateAxisLocation ==
    /\ pc = "ranged"
    /\ \E b \in Rects :
        /\ posn' = b
        /\ UpdateLoc(rangeswitch, b, None)
    /\ pc' = "ready"
    /\ UNCHANGED <<settingVars, rangeVars, drawVars, rangeswitch, plottedrange>>

\* switchBreak(num, posn) called on a laid-out axis
SwitchBreak ==
    /\ pc = "ready"
    /\ \E num \in (0..(breakvnum - 1)) \cup {None}, b \in Rects :
        /\ posn' = b
        /\ SwitchBreakTo(num, b, None)
    /\ UNCHANGED <<settingVars, rangeVars, drawVars, pc>>

\* the layout routines applied to every bounded configuration of break
\* positions, for each number of break points
InitLayout ==
    /\ breakPoints \in {PointsList(n) : n \in 0..MaxPoints}
    /\ breakPosns \in SeqsUpTo(PosVals, MaxPosns)
    /\ direction \in Directions
    /\ hide = {}
    /\ autoMirror = FALSE
    /\ shouldMirror = FALSE
    /\ suppress = FALSE
    /\ Constructed

NextLayout == ComputePlottedRange \/ UpdateAxisLocation \/ SwitchBreak

SpecLayout == InitLayout /\ [][NextLayout]_vars

\* the configurations that give exactly one explicit position per break
InitExplicit == InitLayout /\ Len(breakPosns) = NumBreaks(breakPoints)

SpecExplicit == InitExplicit /\ [][NextLayout]_vars

\* the layout routines applied to every bounded list of break points
InitRanges ==
    /\ breakPoints \in SeqsUpTo(BreakVals, MaxRangePoints)
    /\ breakPosns = <<>>
    /\ direction \in Directions
    /\ hide = {}
    /\ autoMirror = FALSE
    /\ shouldMirror = FALSE
    /\ suppress = FALSE
    /\ Constructed

SpecRanges == InitRanges /\ [][NextLayout]_vars

--------------------------------------------------------------------------
(* Drawing: _axisDraw (lines 183-248) and _autoMirrorDraw (lines 150-181), *)
(* one action per statement group.  A call of a drawing primitive either   *)
(* returns, and is appended to log with the active segment, or raises; no  *)
(* statement of either routine catches, so a raise ends the call.          *)

\* a delegated primitive is called; on return control goes to next
Primitive(name, next) ==
    \/ /\ log' = Append(log, <<name, rangeswitch, otheredge>>)
       /\ pc' = next
    \/ /\ pc' = "raised"
       /\ UNCHANGED log

\* "if not s.<part>.hide: <primitive>"
UnlessHidden(part, name, next) ==
    IF part \in hide
    THEN pc' = next /\ UNCHANGED log
    ELSE Primitive(name, next)

\* MaxOf accumulating the overflows instead
SumOf(a, b) == a + b

\* max(max_delta, self._delta_axis), line 229
MaxOf(a, b) == IF b > a THEN b ELSE a

\* lines 186-203
DrawAxisLine ==
    /\ pc = "ready"
    /\ UnlessHidden("Line", "drawAxisLine", "loop")
    /\ max_delta' = 0
    /\ i' = 0
    /\ UNCHANGED <<settingVars, rangeVars, locVars, rangeswitch, plottedrange,
                   posn, otheredge, delta_axis, observed>>

\* lines 204-212: the loop enters segment i.  computeTicks(allowauto=False)
\* and _graphToPlotter (lines 206-210) change nothing modelled here.
SegmentStart ==
    /\ pc = "loop"
    /\ i < breakvnum
    /\ SwitchBreakTo(i, posn, None)
    /\ delta_axis' = 0
    /\ log' = Append(log, <<"switchBreak", i, None>>)
    /\ pc' = "minor"
    /\ UNCHANGED <<settingVars, rangeVars, posn, i, max_delta, otheredge,
                   observed>>

\* lines 215-216
DrawMinorTicks ==
    /\ pc = "minor"
    /\ UnlessHidden("MinorTicks", "drawMinorTicks", "major")
    /\ UNCHANGED <<settingVars, rangeVars, locVars, rangeswitch, plottedrange,
                   posn, i, max_delta, otheredge, delta_axis, observed>>

\* lines 219-220
DrawMajorTicks ==
    /\ pc = "major"
    /\ UnlessHidden("MajorTicks", "drawMajorTicks", "labels")
    /\ UNCHANGED <<settingVars, rangeVars, locVars, rangeswitch, plottedrange,
                   posn, i, max_delta, otheredge, delta_axis, observed>>

\* lines 223-229: _drawTickLabels leaves the overflow of this segment's
\* labels in _delta_axis, which line 212 zeroed
DrawTickLabels ==
    /\ pc = "labels"
    /\ IF "TickLabels" \notin hide /\ ~suppress
       THEN \/ \E d \in 0..MaxDelta :
                 /\ delta_axis' = d
                 /\ max_delta' = MaxOf(max_delta, d)
                 /\ observed' = Append(observed, d)
                 /\ log' = Append(log, <<"drawTickLabels", rangeswitch, otheredge>>)
                 /\ i' = i + 1
                 /\ pc' = "loop"
            \/ /\ pc' = "raised"
               /\ UNCHANGED <<delta_axis, max_delta, observed, log, i>>
       ELSE /\ max_delta' = MaxOf(max_delta, delta_axis)
            /\ observed' = Append(observed, delta_axis)
            /\ i' = i + 1
            /\ pc' = "loop"
            /\ UNCHANGED <<delta_axis, log>>
    /\ UNCHANGED <<settingVars, rangeVars, locVars, rangeswitch, plottedrange,
                   posn, otheredge>>

\* Restore without the switchBreak(None, posn) of line 231
RestoreNoSwitch ==
    /\ pc = "loop"
    /\ i >= breakvnum
    /\ delta_axis' = max_delta
    /\ pc' = "label"
    /\ UNCHANGED <<settingVars, rangeVars, locVars, rangeswitch, plottedrange,
                   posn, i, max_delta, otheredge, log, observed>>

\* lines 231-232, after the last segment
Restore ==
    /\ pc = "loop"
    /\ i >= breakvnum
    /\ SwitchBreakTo(None, posn, None)
    /\ delta_axis' = max_delta
    /\ log' = Append(log, <<"switchBreak", None, None>>)
    /\ pc' = "label"
    /\ UNCHANGED <<settingVars, rangeVars, posn, i, max_delta, otheredge,
                   observed>>

\* lines 235-236
DrawAxisLabel ==
    /\ pc = "label"
    /\ IF "Label" \notin hide /\ ~suppress
       THEN Primitive("drawAxisLabel", "mirror")
       ELSE pc' = "mirror" /\ UNCHANGED log
    /\ UNCHANGED <<settingVars, rangeVars, locVars, rangeswitch, plottedrange,
                   posn, i, max_delta, otheredge, delta_axis, observed>>

\* lines 240-241 and 154-165: the mirror pass is entered, or skipped
AutoMirror ==
    /\ pc = "mirror"
    /\ IF autoMirror /\ shouldMirror
       THEN \E otherPosition \in {0, One} :
                LET edge == IF 2 * otherPosition < One THEN One ELSE 0
                IN  /\ otheredge' = edge
                    /\ UpdateLoc(rangeswitch, posn, edge)
                    /\ pc' = "m_line"
       ELSE /\ pc' = "text"
            /\ UNCHANGED <<otheredge, locVars>>
    /\ UNCHANGED <<settingVars, rangeVars, rangeswitch, plottedrange, posn, i,
                   max_delta, delta_axis, log, observed>>

\* lines 166-167
MirrorAxisLine ==
    /\ pc = "m_line"
    /\ UnlessHidden("Line", "drawAxisLine", "m_loop")
    /\ i' = 0
    /\ UNCHANGED <<settingVars, rangeVars, locVars, rangeswitch, plottedrange,
                   posn, max_delta, otheredge, delta_axis, observed>>

\* lines 169-174
MirrorSegmentStart ==
    /\ pc = "m_loop"
    /\ i < breakvnum
    /\ SwitchBreakTo(i, posn, otheredge)
    /\ log' = Append(log, <<"switchBreak", i, otheredge>>)
    /\ pc' = "m_minor"
    /\ UNCHANGED <<settingVars, rangeVars, posn, i, max_delta, otheredge,
                   delta_axis, observed>>

\* lines 176-177
MirrorMinorTicks ==
    /\ pc = "m_minor"
    /\ UnlessHidden("MinorTicks", "drawMinorTicks", "m_major")
    /\ UNCHANGED <<settingVars, rangeVars, locVars, rangeswitch, plottedrange,
                   posn, i, max_delta, otheredge, delta_axis, observed>>

\* lines 178-179
MirrorMajorTicks ==
    /\ pc = "m_major"
    /\ UnlessHidden("MajorTicks", "drawMajorTicks", "m_loop")
    /\ i' = IF pc' = "m_loop" THEN i + 1 ELSE i
    /\ UNCHANGED <<settingVars, rangeVars, locVars, rangeswitch, plottedrange,
                   posn, max_delta, otheredge, delta_axis, observed>>

\* MirrorRestore passing the opposite edge on, as the calls of the loop do
MirrorRestoreOtherEdge ==
    /\ pc = "m_loop"
    /\ i >= breakvnum
    /\ SwitchBreakTo(None, posn, otheredge)
    /\ otheredge' = None
    /\ log' = Append(log, <<"switchBreak", None, None>>)
    /\ pc' = "text"
    /\ UNCHANGED <<settingVars, rangeVars, posn, i, max_delta, delta_axis,
                   observed>>

\* line 181
MirrorRestore ==
    /\ pc = "m_loop"
    /\ i >= breakvnum
    /\ SwitchBreakTo(None, posn, None)
    /\ otheredge' = None
    /\ log' = Append(log, <<"switchBreak", None, None>>)
    /\ pc' = "text"
    /\ UNCHANGED <<settingVars, rangeVars, posn, i, max_delta, delta_axis,
                   observed>>

\* line 243
DrawText ==
    /\ pc = "text"
    /\ Primitive("drawTextWithoutOverlap", "control")
    /\ UNCHANGED <<settingVars, rangeVars, locVars, rangeswitch, plottedrange,
                   posn, i, max_delta, otheredge, delta_axis, observed>>

\* lines 246-248
SetControlGraph ==
    /\ pc = "control"
    /\ log' = Append(log, <<"setControlGraph", rangeswitch, otheredge>>)
    /\ pc' = "done"
    /\ UNCHANGED <<settingVars, rangeVars, locVars, rangeswitch, plottedrange,
                   posn, i, max_delta, otheredge, delta_axis, observed>>

Init ==
    /\ breakPoints \in {PointsList(n) : n \in 0..MaxDrawPoints}
    /\ breakPosns \in {<<>>, <<One \div 2>>}
    /\ direction \in Directions
    /\ hide \in {h \in SUBSET Parts : Cardinality(h) <= MaxHidden}
    /\ autoMirror \in BOOLEAN
    /\ shouldMirror \in BOOLEAN
    /\ suppress \in BOOLEAN
    /\ Constructed

Next ==
    \/ ComputePlottedRange
    \/ UpdateAxisLocation
    \/ DrawAxisLine
    \/ SegmentStart
    \/ DrawMinorTicks
    \/ DrawMajorTicks
    \/ DrawTickLabels
    \/ Restore
    \/ DrawAxisLabel
    \/ AutoMirror
    \/ MirrorAxisLine
    \/ MirrorSegmentStart
    \/ MirrorMinorTicks
    \/ MirrorMajorTicks
    \/ MirrorRestore
    \/ DrawText
    \/ SetControlGraph

Spec == Init /\ [][Next]_vars

--------------------------------------------------------------------------
(* Properties *)

\* the axis is unbroken: no active segment, full range plotted
Unbroken == rangeswitch = None /\ plottedrange = orig_plottedrange

\* number of break pairs of the configuration
numBreaks == Len(breakPoints) \div 2

\* the k-th break position used to build posstarts/posstops, k in 1..Len-1
UsedPosn(k) == posstops[k] + breakgap \div 2

\* C1 (as claimed): when a call of _axisDraw has ended, by returning or by
\* a drawing primitive raising, the axis is Unbroken.
C1_UnbrokenAfterDraw == pc \in {"done", "raised"} => Unbroken

\* C2: computePlottedRange yields floor(L/2)+1 segments; segment i starts
\* at lo for i = 0 and at breakPoints[2i-1] (0-based) otherwise, and stops
\* at hi for the last segment and at breakPoints[2i] (0-based) otherwise,
\* so an odd trailing value is in no segment; plottedrange is the full
\* range again afterwards.
C2_SegmentRanges ==
    pc # "new" =>
        /\ breakvnum = numBreaks + 1
        /\ Len(breakvstarts) = breakvnum
        /\ Len(breakvstops) = breakvnum
        /\ \A s \in 0..numBreaks :
            /\ breakvstarts[s + 1] =
                   IF s = 0 THEN orig_plottedrange[1] ELSE breakPoints[2 * s]
            /\ breakvstops[s + 1] =
                   IF s = numBreaks THEN orig_plottedrange[2]
                   ELSE breakPoints[2 * s + 1]

\* C2 witness: an odd list of three break points has been laid out as two
\* segments.
C2_Witness ==
    /\ pc = "ranged"
    /\ Len(breakPoints) = 3
    /\ breakvnum = 2
    /\ breakPoints[3] # breakPoints[2]

\* C3 (as claimed): with no break points the layout is the single segment
\* 0 with the full value range and the position range (0, 1), whatever
\* breakPosns holds.
C3_ZeroBreaksUnbroken ==
    (pc = "ready" /\ breakPoints = <<>>) =>
        /\ breakvnum = 1
        /\ breakvstarts = <<orig_plottedrange[1]>>
        /\ breakvstops = <<orig_plottedrange[2]>>
        /\ posstarts = <<0>>
        /\ posstops = <<One>>

\* C4 (as claimed): every segment has posstarts <= posstops and ends
\* before the next one starts.
C4_DisjointIncreasing ==
    pc = "ready" =>
        \A k \in 1..breakvnum :
            /\ posstarts[k] <= posstops[k]
            /\ k < breakvnum => posstops[k] < posstarts[k + 1]

\* C4 (amended): consecutive entries are always separated by a gap of
\* breakgap, posstops[k] < posstarts[k+1]; and posstarts[k] <= posstops[k]
\* holds for each entry whose bounding break positions (the axis ends
\* counting as -breakgap/2 and 1+breakgap/2) are at least breakgap apart.
C4_GapAndOrder ==
    pc = "ready" =>
        LET n == Len(posstarts)
            lower(k) == IF k = 1 THEN 0 - breakgap \div 2 ELSE UsedPosn(k - 1)
            upper(k) == IF k = n THEN One + breakgap \div 2 ELSE UsedPosn(k)
        IN  /\ Len(posstops) = n
            /\ n >= breakvnum
            /\ \A k \in 1..(n - 1) :
                /\ posstops[k] < posstarts[k + 1]
                /\ posstarts[k + 1] - posstops[k] = breakgap
            /\ \A k \in 1..n :
                upper(k) - lower(k) >= breakgap => posstarts[k] <= posstops[k]

\* C4 witness: three entries built from two explicit positions far enough
\* apart, each with posstarts before posstops.
C4_Witness ==
    /\ pc = "ready"
    /\ Len(posstarts) = 3
    /\ breakPosns # <<>>
    /\ \A k \in 1..3 : posstarts[k] < posstops[k]

\* C5 (as claimed): posstarts and posstops have numBreaks+1 entries each,
\* segment 0 starts at 0 and segment numBreaks stops at 1.
C5_PositionCount ==
    pc = "ready" =>
        /\ Len(posstarts) = numBreaks + 1
        /\ Len(posstops) = numBreaks + 1
        /\ posstarts[1] = 0
        /\ posstops[numBreaks + 1] = One

\* C6: with n >= 1 break pairs and no explicit positions the k-th position
\* is k/(n+1), ascending; range (0,100) with breakPoints [20,40] gives
\* segments (0,20) at (0, 0.475) and (40,100) at (0.525, 1).
C6_EvenPositions ==
    (pc = "ready" /\ breakPosns = <<>> /\ numBreaks >= 1) =>
        /\ Len(posstops) = numBreaks + 1
        /\ \A k \in 1..numBreaks : (numBreaks + 1) * UsedPosn(k) = k * One
        /\ \A k \in 1..(numBreaks - 1) : UsedPosn(k) < UsedPosn(k + 1)
        /\ (breakPoints = <<20, 40>> /\ orig_plottedrange = <<0, 100>>) =>
            /\ breakvstarts = <<0, 40>>
            /\ breakvstops = <<20, 100>>
            /\ posstarts = <<0, (525 * One) \div 1000>>
            /\ posstops = <<(475 * One) \div 1000, One>>

\* C6 witness: the end-to-end example, its one position synthesized at 0.5.
C6_Witness ==
    /\ pc = "ready"
    /\ breakPosns = <<>>
    /\ breakPoints = <<20, 40>>
    /\ orig_plottedrange = <<0, 100>>
    /\ 2 * UsedPosn(1) = One

\* C7 (as claimed): with e explicit positions in [0,1), 0 < e < numBreaks,
\* the m = numBreaks - e synthesized positions are p + k*(1-p)/(m+1) for
\* k = 1..m, p the last explicit position, and lie strictly between p and 1.
C7_SubdivideRemainder ==
    LET e == Len(breakPosns)
        m == numBreaks - e
        p == UsedPosn(e)
    IN  (/\ pc = "ready"
         /\ 0 < e
         /\ e < numBreaks
         /\ \A k \in 1..e : 0 <= breakPosns[k] /\ breakPosns[k] < One) =>
            \A k \in 1..m :
                /\ (m + 1) * (UsedPosn(e + k) - p) = k * (One - p)
                /\ p < UsedPosn(e + k)
                /\ UsedPosn(e + k) < One

\* C8 (as claimed): the positions used to build posstarts/posstops are in
\* ascending order for every breakPosns input.
C8_PositionsSorted ==
    pc = "ready" =>
        \A k \in 1..(Len(posstops) - 2) : UsedPosn(k) <= UsedPosn(k + 1)

\* C9: the bounds passed on by updateAxisLocation are the given bounds
\* when no segment is active; with segment i active the left/right pair
\* (horizontal) or the bottom/top pair (vertical) is interpolated by the
\* segment's (posstarts[i], posstops[i]) and the other pair is unchanged.
C9_SegmentBounds ==
    pc = "ready" =>
        LET left == posn[1]
            top == posn[2]
            right == posn[3]
            bottom == posn[4]
            pStart == posstarts[rangeswitch + 1]
            pStop == posstops[rangeswitch + 1]
        IN  IF rangeswitch = None THEN locbounds = posn
            ELSE IF direction = "horizontal"
            THEN /\ locbounds[1] * One = left * One + (right - left) * pStart
                 /\ locbounds[3] * One = left * One + (right - left) * pStop
                 /\ locbounds[2] = top
                 /\ locbounds[4] = bottom
            ELSE /\ locbounds[4] * One = bottom * One + (top - bottom) * pStart
                 /\ locbounds[2] * One = bottom * One + (top - bottom) * pStop
                 /\ locbounds[1] = left
                 /\ locbounds[3] = right

\* C9 witness: segment 1 of a vertical axis is active; the bottom edge has
\* moved up and the top edge, at position 1, has not.
C9_Witness ==
    /\ pc = "ready"
    /\ rangeswitch = 1
    /\ direction = "vertical"
    /\ breakPosns = <<>>
    /\ locbounds[4] < posn[4]
    /\ locbounds[2] = posn[2]

\* largest element of a sequence of naturals, 0 for the empty sequence
RECURSIVE Largest(_)
Largest(s) ==
    IF s = <<>> THEN 0
    ELSE LET t == Largest(Tail(s)) IN IF Head(s) >= t THEN Head(s) ELSE t

\* C10: when the segment loop of _axisDraw has ended and line 232 has run,
\* _delta_axis is the largest of the overflows the segments reported, one
\* report per segment.
C10_MaxOverflow ==
    pc = "label" =>
        /\ Len(observed) = breakvnum
        /\ delta_axis = Largest(observed)

\* C10 witness: three segments reported 1, 1 and 0 and 1 was recorded,
\* not the sum 2 nor the last value 0.
C10_Witness ==
    /\ pc = "label"
    /\ Len(observed) = 3
    /\ observed[1] = 1
    /\ observed[2] = 1
    /\ observed[3] = 0
    /\ delta_axis = 1

--------------------------------------------------------------------------
(* Properties of the order of a draw pass, read off log *)

\* a is an initial part of b
IsPrefix(a, b) == Len(a) <= Len(b) /\ a = SubSeq(b, 1, Len(a))

IsSwitch(e) == e[1] = "switchBreak"

\* positions in log of switchBreak(None, posn)
RestoreAt == {k \in 1..Len(log) : log[k] = <<"switchBreak", None, None>>}

\* the log of the main pass: up to the first switchBreak(None, posn)
MainLog ==
    IF RestoreAt = {} THEN log
    ELSE SubSeq(log, 1, CHOOSE k \in RestoreAt : \A j \in RestoreAt : k <= j)

\* the arguments of the switchBreak calls of the main pass, in order
MainSwitches ==
    LET sw == SelectSeq(MainLog, IsSwitch) IN [k \in 1..Len(sw) |-> sw[k][2]]

\* 0, 1, ..., breakvnum-1, None
AllSegmentsThenNone ==
    [k \in 1..(breakvnum + 1) |-> IF k <= breakvnum THEN k - 1 ELSE None]

\* C11: in the main pass rangeswitch starts at None and then follows the
\* switchBreak calls, which are made for 0, 1, ..., n-1 and then None, in
\* that order and once each; when the loop has ended (line 232) all of them
\* have been made; and while segment i is active plottedrange is
\* (breakvstarts[i], breakvstops[i]).  (A pass that a raising primitive
\* ends stops part of the way through this sequence.)
C11_SegmentSequence ==
    LET msw == MainSwitches
    IN  pc \notin {"new", "ranged"} =>
        /\ IsPrefix(msw, AllSegmentsThenNone)
        /\ pc \in {"ready", "loop", "minor", "major", "labels", "label"} =>
            rangeswitch = IF msw = <<>> THEN None ELSE msw[Len(msw)]
        /\ pc \in {"minor", "major", "labels"} => rangeswitch = i
        /\ pc \in {"label", "mirror", "text", "control", "done"} =>
            /\ msw = AllSegmentsThenNone
            /\ rangeswitch = None
        /\ (pc \in {"loop", "minor", "major", "labels", "raised"}
            /\ rangeswitch # None) =>
            plottedrange = <<breakvstarts[rangeswitch + 1],
                             breakvstops[rangeswitch + 1]>>

\* C11 witness: the loop over three segments has ended after switchBreak
\* was called for 0, 1, 2 and None.
C11_Witness ==
    /\ pc = "label"
    /\ breakvnum = 3
    /\ MainSwitches = <<0, 1, 2, None>>
    /\ rangeswitch = None

\* positions in log of the main pass's calls of a primitive (the mirror
\* pass logs its calls with the opposite edge)
MainCalls(name) ==
    {k \in 1..Len(log) : log[k][1] = name /\ log[k][3] = None}

\* C12 (as claimed): in the main pass the axis line and the axis label are
\* each drawn at most once, with no segment active, and only after the
\* loop has ended and switchBreak(None, posn) has restored the axis.
C12_LineAndLabelAfterLoop ==
    pc \notin {"new", "ranged"} =>
        /\ Cardinality(MainCalls("drawAxisLine")) <= 1
        /\ Cardinality(MainCalls("drawAxisLabel")) <= 1
        /\ \A k \in MainCalls("drawAxisLine") \cup MainCalls("drawAxisLabel") :
            /\ log[k][2] = None
            /\ \E j \in RestoreAt : j < k

\* C12 (amended): the axis line is drawn at most once, before the first
\* segment is activated (it is the first call of the pass); the axis label
\* is drawn at most once, right after the loop has ended and
\* switchBreak(None, posn) has restored the axis; both with no segment
\* active.
C12_LineFirstLabelAfterLoop ==
    pc \notin {"new", "ranged"} =>
        /\ Cardinality(MainCalls("drawAxisLine")) <= 1
        /\ Cardinality(MainCalls("drawAxisLabel")) <= 1
        /\ \A k \in MainCalls("drawAxisLine") :
            /\ log[k][2] = None
            /\ k = 1
        /\ \A k \in MainCalls("drawAxisLabel") :
            /\ log[k][2] = None
            /\ k = Len(MainLog) + 1
            /\ MainSwitches = AllSegmentsThenNone

\* C12 witness: a pass over two segments has drawn the line first and the
\* label last, after the loop.
C12_Witness ==
    /\ pc = "mirror"
    /\ breakvnum = 2
    /\ log[1][1] = "drawAxisLine"
    /\ log[Len(log)][1] = "drawAxisLabel"
    /\ Len(MainLog) = Len(log) - 1

\* the calls the mirror pass made with the opposite edge as anchor
IsMirrored(e) == e[3] # None
MirrorLog == SelectSeq(log, IsMirrored)

\* the segments the mirror pass activated, in order
MirrorSwitches ==
    LET sw == SelectSeq(MirrorLog, IsSwitch) IN [k \in 1..Len(sw) |-> sw[k][2]]

\* 0, 1, ..., breakvnum-1
AllSegments == [k \in 1..breakvnum |-> k - 1]

\* C13: the mirror pass runs only if autoMirror is set and _shouldAutoMirror
\* agrees; it anchors every call at one opposite edge (0 or 1); it draws
\* nothing but the axis line (first, no segment active), minor ticks and
\* major ticks, for the segment just activated and minor before major; it
\* activates segments 0, 1, ..., n-1 in order, once each, all of them by
\* the time it returns; and it returns with rangeswitch None and the axis
\* location recomputed for the given bounds with otherposition None.  (A
\* pass that a raising primitive ends stops part of the way through.)
C13_MirrorPass ==
    LET mlog == MirrorLog
        msw == MirrorSwitches
        ran == mlog # <<>> \/ pc \in {"m_line", "m_loop", "m_minor", "m_major"}
        n == Len(mlog)
    IN  /\ ran => autoMirror /\ shouldMirror
        /\ (pc \in {"text", "control", "done"} /\ autoMirror /\ shouldMirror)
               => mlog # <<>>
        /\ \A k \in 1..n :
            /\ mlog[k][3] \in {0, One}
            /\ mlog[k][3] = mlog[1][3]
            /\ mlog[k][1] \in {"drawAxisLine", "switchBreak",
                                    "drawMinorTicks", "drawMajorTicks"}
            /\ mlog[k][1] = "drawAxisLine" => k = 1 /\ mlog[k][2] = None
            /\ mlog[k][1] = "drawMinorTicks" =>
                /\ k > 1
                /\ mlog[k - 1] = <<"switchBreak", mlog[k][2], mlog[k][3]>>
            /\ mlog[k][1] = "drawMajorTicks" =>
                /\ k > 1
                /\ mlog[k - 1][1] \in {"switchBreak", "drawMinorTicks"}
                /\ mlog[k - 1][2] = mlog[k][2]
        /\ IsPrefix(msw, AllSegments)
        /\ pc \in {"m_minor", "m_major"} =>
            /\ rangeswitch = i
            /\ msw[Len(msw)] = i
            /\ locother = otheredge
            /\ otheredge = mlog[1][3]
        /\ (ran /\ pc \in {"text", "control", "done"}) =>
            /\ msw = AllSegments
            /\ Cardinality(RestoreAt) = 2
            /\ rangeswitch = None
            /\ plottedrange = orig_plottedrange
            /\ locother = None
            /\ locbounds = posn

\* C13 witness: the mirror pass has returned after drawing the line and the
\* minor and major ticks of three segments at the opposite edge.
C13_Witness ==
    /\ pc = "text"
    /\ autoMirror
    /\ shouldMirror
    /\ breakvnum = 3
    /\ Len(MirrorLog) = 10
    /\ MirrorSwitches = <<0, 1, 2>>
    /\ locother = None

==========================================================================
